---- MODULE Spec2Model ----
(***************************************************************************)
(* Model of pronounce-word.py: the word-metadata cache (self._word_data),  *)
(* its persisted form (word-data.json), the audio file cache directory,    *)
(* and one process invocation of the command line program at a time.       *)
(*                                                                         *)
(* Remote requests (requests.get) are the environment.  The page request   *)
(* of the Resolver answers with a page (status 200), with another status,  *)
(* or raises; an audio request answers with status 200 or another status.  *)
(***************************************************************************)
EXTENDS Integers, Sequences, FiniteSets, TLC

VARIABLES
    word_data,        \* self._word_data: word -> record, of the running process
    word_data_file,   \* WORD_DATA_FILE on disk: [exists, data]
    files,            \* the file paths present in FILE_CACHE
    pc,               \* position of the control thread
    args,             \* the parsed command line (after lines 366-375)
    force,            \* self._force_download
    todo,             \* _rebuild_word_data: words of num_seen not yet visited
    loc,              \* locals of cycle_pronounciations / pronounce / bulk call
    futures,          \* index -> "running" | "ok" | "failed" | "raised", the pool's tasks
    exitreq,          \* "none" | "sysexit" (sys.exit(1)) | "caught" (line 401)
    status,           \* exit status of the last finished invocation (-1: none)
    runs,             \* number of invocations started
    hist,             \* observations of the running invocation
    cyclog            \* observations of successive cycle invocations

vars == <<word_data, word_data_file, files, pc, args, force, todo, loc,
          futures, exitreq, status, runs, hist, cyclog>>

----------------------------------------------------------------------------
(* Bounds *)

MaxRuns == 2          \* process invocations in one behaviour
MaxPage == 2          \* matches on a Resolver page
MaxCycleRuns == 4     \* invocations in a behaviour of SpecCycle
MaxCalls == 2         \* populate calls in a behaviour of SpecCap

(* Program constants *)

MAX_FILES_PER_WORD == 20

Words == {"cat", "dog"}
CliWords == {"cat"}

----------------------------------------------------------------------------
(* Python helpers *)

Min(a, b) == IF a < b THEN a ELSE b

SetMax(S) == CHOOSE x \in S : \A y \in S : y <= x

\* s[:n]
Take(s, n) == SubSeq(s, 1, Min(n, Len(s)))

\* [v] * n
Repeat(v, n) == [i \in 1..n |-> v]

\* all(s) for a list of booleans
All(s) == \A i \in 1..Len(s) : s[i]

\* sum(s) for a list of booleans
RECURSIVE Sum(_)
Sum(s) == IF s = <<>> THEN 0
          ELSE (IF s[1] THEN 1 ELSE 0) + Sum(Tail(s))

EmptyMap == [w \in {} |-> TRUE]

MapDel(m, w) == [x \in (DOMAIN m) \ {w} |-> m[x]]

MapPut(m, w, v) == [x \in (DOMAIN m) \cup {w} |-> IF x = w THEN v ELSE m[x]]

----------------------------------------------------------------------------
(* File paths *)

\* variant of Suffix that drops the index (sensitivity of C22)
Suffix_NoIndex(index) == <<>>

\* '' if index == 0 else f'_{index}'
Suffix(index) == IF index = 0 THEN <<>> ELSE <<"_", index>>

GetWordFilepath(word, index) == [word |-> word, suffix |-> Suffix(index)]

IsFile(fs, path) == path \in fs

\* groups of get_word_re on a cached file name: the word and int(num) or 0
FileWord(path) == path.word

FileNum(path) == IF path.suffix = <<>> THEN 0 ELSE path.suffix[2]

----------------------------------------------------------------------------
(* The Resolver: _fetch_audio_urls_and_speaker_info *)

\* base64.b64decode(x).decode('utf-8') of an encoded argument <<"b64", path>>
B64Decode(enc) == enc[2]

\* AUDIO_URL.format(path=...) and FALLBACK_AUDIO_URL.format(path=...)
AudioUrl(path) == <<"audios/mp3", path>>

FallbackAudioUrl(path) == <<"mp3", path>>

\* One regex match of the page: the Play(...) arguments 1 and 4 ('' is <<>>),
\* the speaker's sex and location.
Match(word, id, kind) ==
    [a1 |-> IF kind = "fallback" THEN <<"b64", <<word, id>>>> ELSE <<>>,
     a4 |-> IF kind = "audio" THEN <<"b64", <<word, id>>>> ELSE <<>>,
     sex |-> IF id % 2 = 1 THEN "m" ELSE "f",
     location |-> id]

\* the loop of lines 222-233 on the audio_urls list
RECURSIVE MatchAudioUrls(_)
MatchAudioUrls(matches) ==
    IF matches = <<>> THEN <<>>
    ELSE LET m == Head(matches)
             here == IF m.a4 # <<>> THEN <<AudioUrl(B64Decode(m.a4))>>
                     ELSE IF m.a1 # <<>>
                          THEN <<FallbackAudioUrl(B64Decode(m.a1))>>
                          ELSE <<>>
         IN  here \o MatchAudioUrls(Tail(matches))

\* the loop of lines 222-233 on the speaker_info list: one tuple per match
MatchSpeakerInfo(matches) ==
    [i \in 1..Len(matches) |->
        [tuple |-> TRUE, sex |-> matches[i].sex, location |-> matches[i].location]]

\* resp is the answer to requests.get(FORVO_URL...): kind "page" (status 200,
\* with its matches), "status" (another status) or "raise".
FetchAudioUrlsAndSpeakerInfo(resp) ==
    IF resp.kind = "raise"
    THEN [raised |-> TRUE, found |-> FALSE, audio_urls |-> <<>>, speaker_info |-> <<>>]
    ELSE IF resp.kind = "page"
    THEN [raised |-> FALSE, found |-> TRUE,
          audio_urls |-> MatchAudioUrls(resp.matches),
          speaker_info |-> MatchSpeakerInfo(resp.matches)]
    ELSE [raised |-> FALSE, found |-> FALSE, audio_urls |-> <<>>, speaker_info |-> <<>>]

----------------------------------------------------------------------------
(* Metadata Manager *)

EmptyRecord ==
    [num_pronounciations |-> 0, cycle_index |-> 0, audio_urls |-> <<>>,
     speaker_info |-> <<>>, disabled |-> <<>>, downloaded |-> <<>>]

InitializeWordMetadata(wd, word, override) ==
    IF word \notin DOMAIN wd \/ override THEN MapPut(wd, word, EmptyRecord) ELSE wd

ClearWordMetadata(wd, word) ==
    IF word \in DOMAIN wd THEN MapDel(wd, word) ELSE wd

\* variant of PopulateFetches that never uses the cache (sensitivity of C5)
PopulateFetches_Always(wd, word, override) == TRUE

\* the test of line 240: does _populate_word_metadata ask the Resolver
PopulateFetches(wd, word, override) == word \notin DOMAIN wd \/ override

\* lines 250-255 on the freshly initialized record
PopulatedRecord(rec, audio_urls, speaker_info) ==
    LET num_pronounciations == Min(Len(audio_urls), MAX_FILES_PER_WORD) IN
    [rec EXCEPT !.num_pronounciations = num_pronounciations,
                !.audio_urls = Take(audio_urls, num_pronounciations),
                !.speaker_info = speaker_info,
                !.disabled = Repeat(FALSE, num_pronounciations),
                !.downloaded = Repeat(FALSE, num_pronounciations)]

\* _populate_word_metadata: the new mapping, the returned value, whether the
\* page request raised and whether the Resolver was asked
PopulateWordMetadata(wd, word, override, resp) ==
    IF PopulateFetches(wd, word, override)
    THEN LET wd1 == InitializeWordMetadata(wd, word, override)
             r == FetchAudioUrlsAndSpeakerInfo(resp)
         IN  IF r.raised
             THEN [wd |-> wd1, ret |-> FALSE, raised |-> TRUE, fetched |-> TRUE]
             ELSE IF ~r.found
             THEN [wd |-> ClearWordMetadata(wd1, word), ret |-> FALSE,
                   raised |-> FALSE, fetched |-> TRUE]
             ELSE [wd |-> MapPut(wd1, word,
                              PopulatedRecord(wd1[word], r.audio_urls, r.speaker_info)),
                   ret |-> TRUE, raised |-> FALSE, fetched |-> TRUE]
    ELSE [wd |-> wd, ret |-> TRUE, raised |-> FALSE, fetched |-> FALSE]

\* variant of AuditedDownloaded that trusts the stored flags (sensitivity of C13)
AuditedDownloaded_KeepsFlags(wd, fs, word) == wd[word].downloaded

\* _audit_downloaded on a word of the mapping
AuditedDownloaded(wd, fs, word) ==
    [i \in 1..wd[word].num_pronounciations |->
        IsFile(fs, GetWordFilepath(word, i - 1))]

AuditDownloaded(wd, fs, word) ==
    LET downloaded == AuditedDownloaded(wd, fs, word) IN
    [wd |-> MapPut(wd, word, [wd[word] EXCEPT !.downloaded = downloaded]),
     remaining |-> Len(downloaded) - Sum(downloaded)]

\* num_seen of _rebuild_word_data (lines 94-106): word -> the nums seen
NumSeen(fs) ==
    [w \in {FileWord(f) : f \in fs} |-> {FileNum(f) : f \in {g \in fs : FileWord(g) = w}}]

\* lines 110-119 for one word of num_seen
RebuildScanned(wd, word, nums, override) ==
    IF word \notin DOMAIN wd \/ override
    THEN LET num_pronounciations == SetMax(nums) + 1
             wd1 == InitializeWordMetadata(wd, word, override)
         IN  MapPut(wd1, word,
                 [wd1[word] EXCEPT
                     !.num_pronounciations = num_pronounciations,
                     !.disabled = Repeat(FALSE, num_pronounciations),
                     !.downloaded = [i \in 1..num_pronounciations |-> (i - 1) \in nums]])
    ELSE wd

\* variant of RebuildRepopulates that re-populates every word on disk
\* (sensitivity of C21)
RebuildRepopulates_Always(wd, word) == TRUE

\* the test of lines 120-121
RebuildRepopulates(wd, word) ==
    Len(wd[word].audio_urls) < wd[word].num_pronounciations

\* lines 110-128: one iteration of the loop over num_seen
RebuildWord(wd, word, nums, override, resp) ==
    LET wd1 == RebuildScanned(wd, word, nums, override) IN
    IF RebuildRepopulates(wd1, word)
    THEN LET downloaded == wd1[word].downloaded
             p == PopulateWordMetadata(wd1, word, TRUE, resp)
         IN  IF p.raised \/ word \notin DOMAIN p.wd
             THEN [wd |-> p.wd, raised |-> TRUE, fetched |-> TRUE]
             ELSE [wd |-> MapPut(p.wd, word,
                              [p.wd[word] EXCEPT !.downloaded = downloaded]),
                   raised |-> FALSE, fetched |-> TRUE]
    ELSE [wd |-> wd1, raised |-> FALSE, fetched |-> FALSE]

----------------------------------------------------------------------------
(* Cache Store: json.dump / json.load of the mapping *)

\* variant of JsonRecord that does not keep the cursor (sensitivity of C3)
JsonRecord_LosesCursor(rec) ==
    [rec EXCEPT !.cycle_index = 0,
                !.speaker_info =
                    [i \in 1..Len(rec.speaker_info) |->
                        [rec.speaker_info[i] EXCEPT !.tuple = FALSE]]]

\* a tuple of speaker_info is written as a JSON array and read back as a list
JsonRecord(rec) ==
    [rec EXCEPT !.speaker_info =
        [i \in 1..Len(rec.speaker_info) |-> [rec.speaker_info[i] EXCEPT !.tuple = FALSE]]]

JsonRoundTrip(wd) == [w \in DOMAIN wd |-> JsonRecord(wd[w])]

SaveWordData(wd) == [exists |-> TRUE, data |-> JsonRoundTrip(wd)]

LoadWordData(wd, file) == IF file.exists THEN file.data ELSE wd

----------------------------------------------------------------------------
(* Playback Cursor: cycle_pronounciations, lines 153-163 *)

CycleWindow(num_pronounciations, num_to_cycle) ==
    IF num_to_cycle > 0 THEN Min(num_pronounciations, num_to_cycle)
    ELSE num_pronounciations

\* variant of CycleStart without the reset of line 161 (sensitivity of C2)
CycleStart_NoReset(cycle_index, num_to_cycle) == cycle_index

CycleStart(cycle_index, num_to_cycle) ==
    IF cycle_index > (num_to_cycle - 1) THEN 0 ELSE cycle_index

\* variant of CycleNext that does not wrap (sensitivity of C14)
CycleNext_NoWrap(cycle_index, num_to_cycle) == cycle_index + 1

\* (cycle_index + 1) % num_to_cycle, for num_to_cycle > 0
CycleNext(cycle_index, num_to_cycle) == (cycle_index + 1) % num_to_cycle

----------------------------------------------------------------------------
(* Download Manager *)

\* line 73: does _download_if_not_available request the file
PrimaryFetches(fs, force_download, word, index) ==
    ~IsFile(fs, GetWordFilepath(word, index)) \/ force_download

\* line 78: self._word_data[word]['audio_urls'][index] raises IndexError
UrlMissing(wd, word, index) == index >= Len(wd[word].audio_urls)

\* how requests.get(url) of _download_file ends: status 200 ("ok"), another
\* status ("failed") or an exception ("raised")
FetchOutcomes == {"ok", "failed", "raised"}

\* _download_file: the file is written iff the status is 200
DownloadFile(fs, word, index, ok) ==
    IF ok THEN fs \cup {GetWordFilepath(word, index)} ELSE fs

\* variant of ForcedRecord that keeps the flags (sensitivity of C9)
ForcedRecord_KeepsFlags(rec, force_download) == rec

\* lines 288-291: with force, every downloaded flag is reset
ForcedRecord(rec, force_download) ==
    IF force_download
    THEN [rec EXCEPT !.downloaded = Repeat(FALSE, rec.num_pronounciations)]
    ELSE rec

\* lines 297-300: the indices of audio_urls handed to the pool
BulkTargets(rec, index_to_skip) ==
    {i \in 0..(Len(rec.audio_urls) - 1) : i # index_to_skip /\ ~rec.downloaded[i + 1]}

\* line 300 reads downloaded[i] for an i it does not hold: IndexError
BulkIndexError(rec, index_to_skip) ==
    \E i \in 0..(Len(rec.audio_urls) - 1) :
        i # index_to_skip /\ i >= Len(rec.downloaded)

\* line 300: the first i for which downloaded[i] raises IndexError
BulkFirstIndexError(rec, index_to_skip) ==
    CHOOSE i \in 0..(Len(rec.audio_urls) - 1) :
        /\ i # index_to_skip /\ i >= Len(rec.downloaded)
        /\ \A j \in 0..(i - 1) : j = index_to_skip \/ j < Len(rec.downloaded)

\* lines 297-300 when line 300 raises: the indices the comprehension handed
\* to the pool before the IndexError; the with-block waits for their tasks
BulkTargetsBeforeError(rec, index_to_skip) ==
    {i \in 0..(BulkFirstIndexError(rec, index_to_skip) - 1) :
        i # index_to_skip /\ ~rec.downloaded[i + 1]}

\* lines 277-300 of _download_remaining_if_not_available: "return" (one of the
\* two early returns), "submit" with the indices handed to the pool, or
\* "raise" (IndexError at line 300) with the indices handed to the pool
\* before it
BulkPlan(wd, fs, force_download, word, index_to_skip) ==
    IF All(wd[word].downloaded) /\ ~force_download
    THEN [kind |-> "return", wd |-> wd, submit |-> {}]
    ELSE LET a == AuditDownloaded(wd, fs, word) IN
         IF a.remaining = 0 /\ ~force_download
         THEN [kind |-> "return", wd |-> a.wd, submit |-> {}]
         ELSE LET rec == ForcedRecord(a.wd[word], force_download)
                  wd2 == MapPut(a.wd, word, rec)
              IN  IF BulkIndexError(rec, index_to_skip)
                  THEN [kind |-> "raise", wd |-> wd2,
                        submit |-> BulkTargetsBeforeError(rec, index_to_skip)]
                  ELSE [kind |-> "submit", wd |-> wd2,
                        submit |-> BulkTargets(rec, index_to_skip)]

\* lines 301-303: the results of the futures written into downloaded
BulkMerge(wd, word, results) ==
    MapPut(wd, word,
        [wd[word] EXCEPT !.downloaded =
            [i \in 1..Len(wd[word].downloaded) |->
                IF (i - 1) \in DOMAIN results THEN results[i - 1] = "ok"
                ELSE wd[word].downloaded[i]]])

----------------------------------------------------------------------------
(* The environment: what a page request can answer *)

FullPage(word, n) == [i \in 1..n |-> Match(word, i, "audio")]

\* a page whose first match has only the fallback argument (argument 4 is '')
FallbackPage(word) ==
    [i \in 1..MaxPage |-> Match(word, i, IF i = 1 THEN "fallback" ELSE "audio")]

\* the pages of the environment: every match carries an audio argument
Pages(word) == {FullPage(word, n) : n \in 0..MaxPage} \cup {FallbackPage(word)}

Responses(word) ==
    {[kind |-> "page", matches |-> p] : p \in Pages(word)}
    \cup {[kind |-> "status", matches |-> <<>>], [kind |-> "raise", matches |-> <<>>]}

----------------------------------------------------------------------------
(* The command line: argparse and lines 366-375 *)

NoCycle == <<>>

CycleArgs == -1..MaxPage

Modes ==
    {[cycle |-> <<c>>, play_n |-> 0, random |-> FALSE] : c \in CycleArgs}
    \cup {[cycle |-> NoCycle, play_n |-> n, random |-> FALSE] : n \in 0..MaxPage}
    \cup {[cycle |-> NoCycle, play_n |-> 0, random |-> TRUE]}

ParseArgs(word, mode, force_download, rebuild_metadata, override) ==
    IF rebuild_metadata \/ override
    THEN [word |-> word, force_download |-> force_download,
          cycle |-> NoCycle, random |-> FALSE, play_n |-> -1,
          rebuild_metadata |-> rebuild_metadata, override |-> override]
    ELSE [word |-> word, force_download |-> force_download,
          cycle |-> mode.cycle, random |-> mode.random, play_n |-> mode.play_n,
          rebuild_metadata |-> rebuild_metadata, override |-> override]

NoArgs == ParseArgs("cat", [cycle |-> NoCycle, play_n |-> 0, random |-> FALSE],
                    FALSE, FALSE, FALSE)

\* the override argument of setup: line 384 does not pass it
SetupOverride == FALSE

----------------------------------------------------------------------------
(* Control flow of __main__, lines 387-404 *)

\* lines 394-400
AfterForce(a) ==
    IF a.cycle # NoCycle THEN "cycle"
    ELSE IF a.random THEN "random"
    ELSE IF a.play_n >= 0 THEN "pronounce"
    ELSE "finally"

\* lines 391-393
AfterOverride(a) == IF a.force_download THEN "force" ELSE AfterForce(a)

\* lines 388-390
AfterSetup(a) ==
    IF a.override /\ ~a.rebuild_metadata THEN "override" ELSE AfterOverride(a)

\* variant of AfterPrimary that plays whatever the download returned
\* (sensitivity of C10)
AfterPrimary_IgnoresFailure(success) == "play"

\* pronounce, lines 167-173: where a finished _download_if_not_available leads
AfterPrimary(success) == IF success THEN "play" ELSE "exit"

\* pronounce, lines 169-170
AfterPlay == "remaining"

\* where pronounce returns to: line 163 of cycle_pronounciations or line 400
AfterPronounce(a) == IF a.cycle # NoCycle THEN "advance" ELSE "finally"

----------------------------------------------------------------------------
(* State *)

NoLoc == [k |-> -1, ci |-> -1, w |-> -1, skip |-> -1, ret |-> "none"]

NoFutures == [i \in {} |-> "running"]

NoHist == [rcalls |-> 0, log |-> <<>>, wrote |-> {}, saves |-> 0]

NoFile == [exists |-> FALSE, data |-> EmptyMap]

\* the cache directory before the first invocation: any files of the word
\* asked for, and possibly the first file of the other words
InitFiles ==
    SUBSET ({GetWordFilepath(w, i) : w \in CliWords, i \in 0..MaxPage}
            \cup {GetWordFilepath(w, 0) : w \in Words \ CliWords})

Init ==
    /\ word_data = EmptyMap
    /\ word_data_file = NoFile
    /\ files \in InitFiles
    /\ pc = "idle"
    /\ args = NoArgs
    /\ force = FALSE
    /\ todo = {}
    /\ loc = NoLoc
    /\ futures = NoFutures
    /\ exitreq = "none"
    /\ status = -1
    /\ runs = 0
    /\ hist = NoHist
    /\ cyclog = [on |-> FALSE, arg |-> -1, slots |-> <<>>]

Logged(event) == [hist EXCEPT !.log = Append(@, event)]

\* the invocation went through line 163
CycleCompleted(log) == log # <<>> /\ log[Len(log)][1] = "cycled"

\* the slot whose file play() played in this invocation
PlayedSlot(log) == log[CHOOSE p \in 1..Len(log) : log[p][1] = "play"][2]

HasPlayed(log) == \E p \in 1..Len(log) : log[p][1] = "play"

\* an exception reaches line 401: logged, then the finally clause
Caught ==
    /\ pc' = "finally"
    /\ exitreq' = "caught"

\* sys.exit(1): SystemExit passes line 401 and runs the finally clause
SysExit ==
    /\ pc' = "finally"
    /\ exitreq' = "sysexit"

----------------------------------------------------------------------------
(* Actions *)

\* lines 365-385 up to load_word_data: a new process parses its arguments,
\* constructs the PronounceWord and loads the mapping; when the loop of
\* line 109 has nothing to do, setup runs on to lines 65-66
Start(a) ==
    /\ pc \in {"idle", "exited"}
    /\ runs' = runs + 1
    /\ args' = a
    /\ word_data' = LoadWordData(EmptyMap, word_data_file)
    /\ todo' = IF a.rebuild_metadata THEN DOMAIN NumSeen(files) ELSE {}
    /\ force' = IF todo' # {} THEN FALSE ELSE a.force_download
    /\ pc' = IF todo' # {} THEN "rebuild" ELSE AfterSetup(a)
    /\ loc' = [NoLoc EXCEPT !.k = a.play_n]
    /\ futures' = NoFutures
    /\ exitreq' = "none"
    /\ status' = -1
    /\ hist' = NoHist
    /\ UNCHANGED <<word_data_file, files, cyclog>>

Invoke ==
    /\ runs < MaxRuns
    /\ \E w \in CliWords, m \in Modes, f \in BOOLEAN, r \in BOOLEAN, o \in BOOLEAN :
        Start(ParseArgs(w, m, f, r, o))

\* one iteration of the loop of lines 109-128; an exception leaves setup,
\* which is outside the try of line 387: the process dies without teardown.
\* After the last iteration setup sets the force flag (lines 65-66)
Rebuild ==
    /\ pc = "rebuild"
    /\ \E word \in todo : \E resp \in Responses(word) :
         LET r == RebuildWord(word_data, word, NumSeen(files)[word],
                              SetupOverride, resp)
         IN  /\ hist' = [hist EXCEPT !.rcalls = @ + (IF r.fetched THEN 1 ELSE 0)]
             /\ IF r.raised
                THEN /\ pc' = "exited"
                     /\ status' = 1
                     /\ word_data' = EmptyMap
                     /\ todo' = {}
                     /\ UNCHANGED force
                ELSE /\ word_data' = r.wd
                     /\ todo' = todo \ {word}
                     /\ pc' = IF todo' = {} THEN AfterSetup(args) ELSE "rebuild"
                     /\ force' = IF todo' = {} THEN args.force_download ELSE force
                     /\ UNCHANGED status
    /\ UNCHANGED <<word_data_file, files, args, loc, futures, exitreq,
                   runs, cyclog>>

\* override_metadata, lines 305-307
OverrideMetadata ==
    /\ pc = "override"
    /\ \E resp \in Responses(args.word) :
         LET p == PopulateWordMetadata(word_data, args.word, TRUE, resp) IN
         /\ hist' = [Logged(<<"resolve", resp.kind, args.word \in DOMAIN word_data>>)
                        EXCEPT !.rcalls = @ + 1]
         /\ IF p.raised \/ args.word \notin DOMAIN p.wd
            THEN /\ word_data' = p.wd
                 /\ Caught
            ELSE /\ word_data' = AuditDownloaded(p.wd, files, args.word).wd
                 /\ pc' = AfterOverride(args)
                 /\ UNCHANGED exitreq
    /\ UNCHANGED <<word_data_file, files, args, force, todo, loc, futures,
                   status, runs, cyclog>>

\* lines 277-300 entered with index_to_skip, returning to ret; when line 300
\* raises, the tasks already submitted run before the exception leaves the
\* with-block (loc.ret = "raise")
BulkBegin(index_to_skip, ret) ==
    IF args.word \notin DOMAIN word_data
    THEN /\ Caught
         /\ UNCHANGED <<word_data, loc, futures, hist>>
    ELSE LET plan == BulkPlan(word_data, files, force, args.word, index_to_skip) IN
         /\ word_data' = plan.wd
         /\ IF plan.kind = "return"
            THEN /\ pc' = ret
                 /\ hist' = Logged(<<"nothing", index_to_skip>>)
                 /\ UNCHANGED <<loc, futures, exitreq>>
            ELSE /\ pc' = "pool"
                 /\ loc' = [loc EXCEPT !.skip = index_to_skip,
                                       !.ret = IF plan.kind = "raise"
                                               THEN "raise" ELSE ret]
                 /\ futures' = [i \in plan.submit |-> "running"]
                 /\ hist' = Logged(<<"submit", index_to_skip>>)
                 /\ UNCHANGED exitreq

\* force_download, lines 309-310
ForceDownload ==
    /\ pc = "force"
    /\ BulkBegin(-1, AfterForce(args))
    /\ UNCHANGED <<word_data_file, files, args, force, todo, status, runs, cyclog>>

\* cycle_pronounciations, lines 152-161
CycleBegin ==
    /\ pc = "cycle"
    /\ \E resp \in Responses(args.word) :
         LET p == PopulateWordMetadata(word_data, args.word, FALSE, resp) IN
         /\ word_data' = p.wd
         /\ hist' = [hist EXCEPT !.rcalls = @ + (IF p.fetched THEN 1 ELSE 0)]
         /\ IF p.raised
            THEN Caught /\ UNCHANGED loc
            ELSE IF ~p.ret
            THEN SysExit /\ UNCHANGED loc
            ELSE LET rec == p.wd[args.word]
                     num_to_cycle == CycleWindow(rec.num_pronounciations, args.cycle[1])
                 IN  /\ loc' = [loc EXCEPT !.w = num_to_cycle,
                                           !.ci = CycleStart(rec.cycle_index, num_to_cycle),
                                           !.k = CycleStart(rec.cycle_index, num_to_cycle)]
                     /\ pc' = "pronounce"
                     /\ UNCHANGED exitreq
    /\ UNCHANGED <<word_data_file, files, args, force, todo, futures, status,
                   runs, cyclog>>

\* pronounce, line 166
Pronounce ==
    /\ pc = "pronounce"
    /\ \E resp \in Responses(args.word) :
         LET p == PopulateWordMetadata(word_data, args.word, FALSE, resp) IN
         /\ word_data' = p.wd
         /\ hist' = [hist EXCEPT !.rcalls = @ + (IF p.fetched THEN 1 ELSE 0)]
         /\ IF p.raised THEN Caught
            ELSE IF ~p.ret THEN SysExit
            ELSE pc' = "primary" /\ UNCHANGED exitreq
    /\ UNCHANGED <<word_data_file, files, args, force, todo, loc, futures,
                   status, runs, cyclog>>

\* pronounce, line 167: _download_if_not_available(word, pronunciation_index);
\* an exception of requests.get (line 200) reaches line 401
PrimaryDownload ==
    /\ pc = "primary"
    /\ IF PrimaryFetches(files, force, args.word, loc.k)
       THEN IF UrlMissing(word_data, args.word, loc.k)
            THEN /\ Caught
                 /\ UNCHANGED <<files, hist>>
            ELSE \E res \in FetchOutcomes :
                   LET ok == res = "ok" IN
                   /\ files' = DownloadFile(files, args.word, loc.k, ok)
                   /\ hist' = [Logged(<<"fetch", loc.k, ok>>) EXCEPT
                                 !.wrote = IF ok THEN @ \cup {loc.k} ELSE @]
                   /\ IF res = "raised"
                      THEN Caught
                      ELSE IF AfterPrimary(ok) = "exit"
                      THEN SysExit
                      ELSE pc' = AfterPrimary(ok) /\ UNCHANGED exitreq
       ELSE /\ hist' = Logged(<<"found", loc.k>>)
            /\ pc' = AfterPrimary(TRUE)
            /\ UNCHANGED <<files, exitreq>>
    /\ UNCHANGED <<word_data, word_data_file, args, force, todo, loc, futures,
                   status, runs, cyclog>>

\* pronounce, lines 168-169: play(filepath)
Play ==
    /\ pc = "play"
    /\ hist' = IF IsFile(files, GetWordFilepath(args.word, loc.k))
               THEN Logged(<<"play", loc.k>>)
               ELSE Logged(<<"noplay", loc.k>>)
    /\ pc' = AfterPlay
    /\ UNCHANGED <<word_data, word_data_file, files, args, force, todo, loc,
                   futures, exitreq, status, runs, cyclog>>

\* pronounce, line 170
DownloadRemaining ==
    /\ pc = "remaining"
    /\ BulkBegin(loc.k, AfterPronounce(args))
    /\ UNCHANGED <<word_data_file, files, args, force, todo, status, runs, cyclog>>

\* variant of Worker in which the task writes its own result into the record
\* (sensitivity of C15)
Worker_WritesRecord ==
    /\ pc = "pool"
    /\ \E i \in DOMAIN futures, res \in FetchOutcomes :
         /\ futures[i] = "running"
         /\ files' = DownloadFile(files, args.word, i, res = "ok")
         /\ futures' = [futures EXCEPT ![i] = res]
         /\ hist' = [hist EXCEPT !.wrote = IF res = "ok" THEN @ \cup {i} ELSE @]
         /\ word_data' = BulkMerge(word_data, args.word, [j \in {i} |-> res])
    /\ UNCHANGED <<word_data_file, pc, args, force, todo, loc,
                   exitreq, status, runs, cyclog>>

\* one task of the pool: _download_file(word, i, url, headers)
Worker ==
    /\ pc = "pool"
    /\ \E i \in DOMAIN futures, res \in FetchOutcomes :
         /\ futures[i] = "running"
         /\ files' = DownloadFile(files, args.word, i, res = "ok")
         /\ futures' = [futures EXCEPT ![i] = res]
         /\ hist' = [hist EXCEPT !.wrote = IF res = "ok" THEN @ \cup {i} ELSE @]
    /\ UNCHANGED <<word_data, word_data_file, pc, args, force, todo, loc,
                   exitreq, status, runs, cyclog>>

\* the batch ends with an exception: the IndexError of line 300, or the
\* exception of a task, which f.result() raises again at line 301
BatchRaises(ret, results) ==
    ret = "raise" \/ \E i \in DOMAIN results : results[i] = "raised"

\* lines 301-303 and the end of the with-block: every task is over; the
\* results are merged unless the batch ends with an exception
PoolJoin ==
    /\ pc = "pool"
    /\ \A i \in DOMAIN futures : futures[i] # "running"
    /\ IF BatchRaises(loc.ret, futures)
       THEN /\ Caught
            /\ hist' = Logged(<<"aborted", loc.skip>>)
            /\ UNCHANGED word_data
       ELSE /\ word_data' = BulkMerge(word_data, args.word, futures)
            /\ hist' = Logged(<<"joined", loc.skip>>)
            /\ pc' = loc.ret
            /\ UNCHANGED exitreq
    /\ UNCHANGED <<word_data_file, files, args, force, todo, loc, futures,
                   status, runs, cyclog>>

\* cycle_pronounciations, line 163
CycleAdvance ==
    /\ pc = "advance"
    /\ IF loc.w = 0
       THEN /\ Caught
            /\ UNCHANGED <<word_data, hist>>
       ELSE /\ word_data' = MapPut(word_data, args.word,
                                [word_data[args.word] EXCEPT
                                    !.cycle_index = CycleNext(loc.ci, loc.w)])
            /\ hist' = Logged(<<"cycled", loc.ci>>)
            /\ pc' = "finally"
            /\ UNCHANGED exitreq
    /\ UNCHANGED <<word_data_file, files, args, force, todo, loc, futures,
                   status, runs, cyclog>>

\* line 398: PronounceWord has no play_random_pronounciation
PlayRandom ==
    /\ pc = "random"
    /\ Caught
    /\ UNCHANGED <<word_data, word_data_file, files, args, force, todo, loc,
                   futures, status, runs, hist, cyclog>>

\* lines 403-404 and the end of the process
Teardown ==
    /\ pc = "finally"
    /\ word_data_file' = SaveWordData(word_data)
    /\ status' = IF exitreq = "sysexit" THEN 1 ELSE 0
    /\ pc' = "exited"
    /\ word_data' = EmptyMap
    /\ hist' = [hist EXCEPT !.saves = @ + 1]
    /\ cyclog' = IF cyclog.on /\ CycleCompleted(hist.log)
                 THEN [cyclog EXCEPT !.slots = Append(@, PlayedSlot(hist.log))]
                 ELSE cyclog
    /\ UNCHANGED <<files, args, force, todo, loc, futures, exitreq, runs>>

Next ==
    \/ Invoke
    \/ Rebuild
    \/ OverrideMetadata
    \/ ForceDownload
    \/ CycleBegin
    \/ Pronounce
    \/ PrimaryDownload
    \/ Play
    \/ DownloadRemaining
    \/ Worker
    \/ PoolJoin
    \/ CycleAdvance
    \/ PlayRandom
    \/ Teardown

Spec == Init /\ [][Next]_vars

----------------------------------------------------------------------------
(* SpecCycle: every invocation is `--cycle arg word` with the same arg; the  *)
(* slots played by the invocations that went through line 163 are recorded. *)

InitCycle ==
    /\ word_data = EmptyMap
    /\ word_data_file = NoFile
    /\ files \in InitFiles
    /\ pc = "idle"
    /\ args = NoArgs
    /\ force = FALSE
    /\ todo = {}
    /\ loc = NoLoc
    /\ futures = NoFutures
    /\ exitreq = "none"
    /\ status = -1
    /\ runs = 0
    /\ hist = NoHist
    /\ \E c \in CycleArgs : cyclog = [on |-> TRUE, arg |-> c, slots |-> <<>>]

InvokeCycle ==
    /\ runs < MaxCycleRuns
    /\ \E w \in CliWords :
         Start(ParseArgs(w, [cycle |-> <<cyclog.arg>>, play_n |-> 0, random |-> FALSE],
                         FALSE, FALSE, FALSE))

NextCycle ==
    \/ InvokeCycle
    \/ CycleBegin
    \/ Pronounce
    \/ PrimaryDownload
    \/ Play
    \/ DownloadRemaining
    \/ Worker
    \/ PoolJoin
    \/ CycleAdvance
    \/ Teardown

SpecCycle == InitCycle /\ [][NextCycle]_vars

----------------------------------------------------------------------------
(* SpecCap: _populate_word_metadata called on the mapping with pages around *)
(* MAX_FILES_PER_WORD matches.                                               *)

CapLens == {0, 1, MAX_FILES_PER_WORD - 1, MAX_FILES_PER_WORD, MAX_FILES_PER_WORD + 1}

CapResponses(word) ==
    {[kind |-> "page", matches |-> FullPage(word, n)] : n \in CapLens}
    \cup {[kind |-> "status", matches |-> <<>>]}

InitCap ==
    /\ word_data = EmptyMap
    /\ word_data_file = NoFile
    /\ files = {}
    /\ pc = "api"
    /\ args = NoArgs
    /\ force = FALSE
    /\ todo = {}
    /\ loc = NoLoc
    /\ futures = NoFutures
    /\ exitreq = "none"
    /\ status = -1
    /\ runs = 0
    /\ hist = NoHist
    /\ cyclog = [on |-> FALSE, arg |-> -1, slots |-> <<>>]

PopulateCall ==
    /\ pc = "api"
    /\ runs < MaxCalls
    /\ runs' = runs + 1
    /\ \E word \in Words, override \in BOOLEAN :
         \E resp \in CapResponses(word) :
           LET p == PopulateWordMetadata(word_data, word, override, resp) IN
           /\ word_data' = p.wd
           /\ args' = [args EXCEPT !.word = word, !.override = override]
           /\ hist' = [NoHist EXCEPT
                         !.rcalls = IF p.fetched THEN 1 ELSE 0,
                         !.log = <<<<"populate", p.ret, resp.matches>>>>]
    /\ UNCHANGED <<word_data_file, files, pc, force, todo, loc, futures, exitreq,
                   status, cyclog>>

NextCap == PopulateCall

SpecCap == InitCap /\ [][NextCap]_vars

----------------------------------------------------------------------------
(* SpecAudit: _audit_downloaded called on a record the program can hold: one *)
(* built by _populate_word_metadata, with any cursor, and with the downloaded *)
(* list of any length that _rebuild_word_data can put back (line 126).        *)

BoolSeqs(n) == UNION {[1..k -> BOOLEAN] : k \in 0..n}

AuditRecords(word) ==
    {[PopulatedRecord(EmptyRecord, MatchAudioUrls(FullPage(word, n)),
                      MatchSpeakerInfo(FullPage(word, n)))
         EXCEPT !.cycle_index = c, !.downloaded = d] :
        n \in 0..MaxPage, c \in 0..MaxPage, d \in BoolSeqs(MaxPage + 1)}

InitAudit ==
    /\ \E word \in CliWords : \E rec \in AuditRecords(word) :
         /\ rec.cycle_index < rec.num_pronounciations \/ rec.cycle_index = 0
         /\ word_data = MapPut(EmptyMap, word, rec)
    /\ word_data_file = NoFile
    /\ files \in InitFiles
    /\ pc = "api"
    /\ args = NoArgs
    /\ force = FALSE
    /\ todo = {}
    /\ loc = NoLoc
    /\ futures = NoFutures
    /\ exitreq = "none"
    /\ status = -1
    /\ runs = 0
    /\ hist = NoHist
    /\ cyclog = [on |-> FALSE, arg |-> -1, slots |-> <<>>]

\* one call of _audit_downloaded(word); the record before the call and the
\* returned value are recorded
AuditCall ==
    /\ pc = "api"
    /\ runs < MaxCalls
    /\ runs' = runs + 1
    /\ \E word \in DOMAIN word_data :
         LET a == AuditDownloaded(word_data, files, word) IN
         /\ word_data' = a.wd
         /\ args' = [args EXCEPT !.word = word]
         /\ hist' = [NoHist EXCEPT
                       !.log = <<<<"audit", a.remaining, word_data[word]>>>>]
    /\ UNCHANGED <<word_data_file, files, pc, force, todo, loc, futures, exitreq,
                   status, cyclog>>

NextAudit == AuditCall

SpecAudit == InitAudit /\ [][NextAudit]_vars

----------------------------------------------------------------------------
(* Claims *)

\* what the running invocation found persisted for its word when it loaded
Persisted == word_data_file.data

HadRecord == args.word \in DOMAIN Persisted

\* the invocation is a cycle invocation that went through line 163
CycleDone == pc = "finally" /\ args.cycle # NoCycle /\ CycleCompleted(hist.log)

I1(rec) ==
    /\ Len(rec.audio_urls) = rec.num_pronounciations
    /\ Len(rec.speaker_info) = rec.num_pronounciations
    /\ Len(rec.disabled) = rec.num_pronounciations
    /\ Len(rec.downloaded) = rec.num_pronounciations

\* C1: whenever no operation is in progress (the process has ended and the
\* mapping is the persisted one), every record of the mapping has
\* len(audioURLs) = len(speakerInfo) = len(disabled) = len(downloaded)
\* = numPronunciations.
C1_ParallelSequencesAtRest ==
    pc \in {"idle", "exited"} => \A w \in DOMAIN Persisted : I1(Persisted[w])

\* C2: a cycle call on a record with N >= 1 slots and persisted cursor c uses
\* the window W = min(numToCycle, N) for a positive numToCycle and W = N
\* otherwise, plays slot c when c < W and slot 0 when c >= W, and on
\* completion leaves cycleIndex = (played slot + 1) mod W.
C2_CycleWindowAndCursor ==
    (CycleDone /\ word_data[args.word].num_pronounciations >= 1) =>
        LET N == word_data[args.word].num_pronounciations
            c == IF HadRecord THEN Persisted[args.word].cycle_index ELSE 0
            n == args.cycle[1]
            W == IF n > 0 THEN (IF n < N THEN n ELSE N) ELSE N
            slot == IF c < W THEN c ELSE 0
        IN  /\ HasPlayed(hist.log)
            /\ PlayedSlot(hist.log) = slot
            /\ loc.w = W
            /\ word_data[args.word].cycle_index = (slot + 1) % W

\* C2 witness: a completed cycle call whose persisted cursor was outside the
\* requested window, so the cycle started over at slot 0
C2_Witness ==
    /\ CycleDone
    /\ HadRecord
    /\ args.cycle[1] > 0
    /\ args.cycle[1] < word_data[args.word].num_pronounciations
    /\ Persisted[args.word].cycle_index >= args.cycle[1]
    /\ PlayedSlot(hist.log) = 0

\* C3: starting from a freshly created record, the successive completed cycle
\* invocations with the same window W, each loading the mapping at its start
\* and persisting it at its end, play the slots 0, 1, ..., W-1, 0, 1, ...
C3_CycleOrderAcrossInvocations ==
    (cyclog.on /\ cyclog.slots # <<>>) =>
        /\ \A w \in CliWords :
             /\ w \in DOMAIN Persisted
             /\ LET N == Persisted[w].num_pronounciations
                    W == IF cyclog.arg > 0
                         THEN (IF cyclog.arg < N THEN cyclog.arg ELSE N)
                         ELSE N
                IN  /\ W >= 1
                    /\ \A j \in 1..Len(cyclog.slots) : cyclog.slots[j] = (j - 1) % W
                    /\ Persisted[w].cycle_index = Len(cyclog.slots) % W

\* C3 witness: the cycle has wrapped: more completed calls than the window
\* (of at least two slots) is wide, the last one back at slot 0
C3_Witness ==
    /\ cyclog.on
    /\ Len(cyclog.slots) >= 3
    /\ cyclog.slots[2] = 1
    /\ cyclog.slots[Len(cyclog.slots)] = 0


\* the list R the Resolver returned to the last populate call of SpecCap:
\* the audio URL and the speaker of each entry
LastPage == hist.log[1][3]

EntryUrl(m) == IF m.a4 # <<>> THEN <<"audios/mp3", m.a4[2]>> ELSE <<"mp3", m.a1[2]>>

EntrySpeaker(m) == [tuple |-> TRUE, sex |-> m.sex, location |-> m.location]

\* C4: when populate calls the Resolver and the Resolver returns a list R,
\* the record has numPronunciations = min(len(R), MAX_SLOTS), audioURLs and
\* speakerInfo are exactly the first numPronunciations entries of R, and
\* disabled and downloaded are all-false of that length.
C4_PopulateBuildsTruncatedRecord ==
    (pc = "api" /\ hist.rcalls = 1 /\ hist.log[1][2]) =>
        LET R == LastPage
            n == IF Len(R) < MAX_FILES_PER_WORD THEN Len(R) ELSE MAX_FILES_PER_WORD
            rec == word_data[args.word]
        IN  /\ rec.num_pronounciations = n
            /\ rec.audio_urls = [i \in 1..n |-> EntryUrl(R[i])]
            /\ rec.speaker_info = [i \in 1..n |-> EntrySpeaker(R[i])]
            /\ rec.disabled = [i \in 1..n |-> FALSE]
            /\ rec.downloaded = [i \in 1..n |-> FALSE]

\* C5: populate(word, override=false) twice in a row (lines 152 and 166 of a
\* cycle invocation) asks the Resolver at most once: the second call asks
\* nothing, returns true and leaves the mapping as the first call left it.
C5_SecondPopulateIsCacheHit ==
    [][(pc = "pronounce" /\ args.cycle # NoCycle) =>
          /\ hist'.rcalls = hist.rcalls
          /\ hist'.rcalls <= 1
          /\ word_data' = word_data
          /\ pc' = "primary"]_vars

\* C5 witness: in a cycle invocation the first populate asked the Resolver and
\* the second one has returned true
C5_Witness ==
    /\ pc = "primary"
    /\ args.cycle # NoCycle
    /\ hist.rcalls = 1
    /\ word_data[args.word].num_pronounciations >= 1

\* the Resolver signalled not-found to this invocation for its word, which
\* had a record
NotFoundWithRecord ==
    \E p \in 1..Len(hist.log) :
        hist.log[p][1] = "resolve" /\ hist.log[p][2] = "status" /\ hist.log[p][3]

\* C6: when the Resolver signals not-found for a word with a pre-existing
\* record, the record is removed from the mapping and the invocation ends
\* with a nonzero exit status.
C6_NotFoundRemovesAndFails ==
    (pc = "exited" /\ NotFoundWithRecord) =>
        /\ args.word \notin DOMAIN Persisted
        /\ status # 0

\* rebuild has just completed in this invocation
RebuildDone ==
    /\ args.rebuild_metadata
    /\ pc \in {"force", "finally"}
    /\ hist.log = <<>>
    /\ exitreq = "none"

\* C7: for a word with no prior record whose cached files have the slot
\* indices S, after rebuild the record has numPronunciations = max(S) + 1 and
\* downloaded[i] is true exactly for the i in S.
C7_RebuildFromFilesystem ==
    RebuildDone =>
        \A w \in DOMAIN NumSeen(files) :
            w \notin DOMAIN Persisted =>
                LET S == NumSeen(files)[w]
                    n == SetMax(S) + 1
                IN  /\ w \in DOMAIN word_data
                    /\ word_data[w].num_pronounciations = n
                    /\ word_data[w].downloaded = [i \in 1..n |-> (i - 1) \in S]


\* the bulk call has just merged the results of its batch
BatchJoined ==
    pc # "exited" /\ hist.log # <<>> /\ hist.log[Len(hist.log)][1] = "joined"

\* C8: in a bulk batch a failed fetch (a status other than success, or a
\* request that raises) affects its own index only: after the batch
\* downloaded[i] is true for every submitted index whose fetch succeeded and
\* false for every one whose fetch failed, and the operation goes on where
\* the bulk call returns.
C8_BatchFailureIsPerIndex ==
    [][(pc = "pool" /\ pc' # "pool") =>
          /\ \A i \in DOMAIN futures :
               /\ futures[i] \in FetchOutcomes
               /\ word_data'[args.word].downloaded[i + 1] = (futures[i] = "ok")
          /\ \A i \in 0..(Len(word_data[args.word].downloaded) - 1) :
               i \notin DOMAIN futures =>
                  word_data'[args.word].downloaded[i + 1]
                      = word_data[args.word].downloaded[i + 1]
          /\ Len(word_data'[args.word].downloaded) = Len(word_data[args.word].downloaded)
          /\ pc' = loc.ret
          /\ exitreq' = "none"]_vars

\* the bulk call has just ended, with its results merged or by an exception
BatchOver ==
    /\ pc # "exited"
    /\ hist.log # <<>>
    /\ hist.log[Len(hist.log)][1] \in {"joined", "aborted"}

\* the batch of force_download (index_to_skip = -1) under --force-download
ForceBatch == force /\ loc.skip = -1 /\ args.word \in DOMAIN word_data

\* C9: with force-download, the bulk call over all slots resets every
\* downloaded flag to false, then fetches every slot whatever the flags and
\* the files on disk were, and writes the file of every slot whose fetch
\* succeeds.
C9_ForceRefetchesEverySlot ==
    /\ (pc = "pool" /\ ForceBatch) =>
          /\ DOMAIN futures = 0..(word_data[args.word].num_pronounciations - 1)
          /\ \A i \in DOMAIN futures : ~word_data[args.word].downloaded[i + 1]
    /\ (BatchOver /\ ForceBatch /\ hist.log[Len(hist.log)][2] = -1) =>
          \A i \in 0..(word_data[args.word].num_pronounciations - 1) :
              /\ i \in DOMAIN futures
              /\ futures[i] = "ok" =>
                    /\ i \in hist.wrote
                    /\ IsFile(files, GetWordFilepath(args.word, i))

\* C9 witness: a forced batch has re-fetched a slot that was persisted as
\* downloaded and whose file was on disk
C9_Witness ==
    /\ BatchJoined
    /\ ForceBatch
    /\ HadRecord
    /\ Len(Persisted[args.word].downloaded) >= 2
    /\ \A i \in 1..Len(Persisted[args.word].downloaded) :
           Persisted[args.word].downloaded[i]
    /\ \A i \in DOMAIN futures : futures[i] = "ok" /\ i \in hist.wrote
    /\ Cardinality(DOMAIN futures) >= 2

\* play() was called in this invocation
PlayInvoked == \E p \in 1..Len(hist.log) : hist.log[p][1] \in {"play", "noplay"}

\* the synchronous fetch of the requested slot failed: its request was
\* answered with a status other than 200, or raised
PrimaryFailed ==
    \E p \in 1..Len(hist.log) : hist.log[p][1] = "fetch" /\ ~hist.log[p][3]

\* C10: in pronounce, play on slot k happens only after slot k's file is
\* present (found on disk or fetched successfully); the fetches of the
\* remaining indices start only after play was invoked; if the synchronous
\* fetch of slot k fails (a status other than success, or a request that
\* raises), play is never invoked, no remaining index is fetched and the
\* invocation exits with a nonzero status.
C10_DispatchOrder ==
    /\ \A p \in 1..Len(hist.log) :
         hist.log[p][1] \in {"play", "noplay"} =>
            /\ hist.log[p][1] = "play"
            /\ IsFile(files, GetWordFilepath(args.word, hist.log[p][2]))
            /\ p > 1
            /\ hist.log[p - 1][1] \in {"found", "fetch"}
            /\ hist.log[p - 1][2] = hist.log[p][2]
            /\ hist.log[p - 1][1] = "fetch" => hist.log[p - 1][3]
    /\ \A p \in 1..Len(hist.log) :
         (hist.log[p][1] \in {"submit", "nothing"} /\ hist.log[p][2] # -1) =>
            /\ p > 1
            /\ hist.log[p - 1][1] = "play"
            /\ hist.log[p - 1][2] = hist.log[p][2]
    /\ (pc = "pool" /\ loc.skip # -1) => PlayInvoked
    /\ PrimaryFailed =>
         /\ ~PlayInvoked
         /\ hist.log[Len(hist.log)][1] = "fetch"
         /\ pc \in {"finally", "exited"}
         /\ exitreq = "sysexit"
         /\ pc = "exited" => status # 0

\* the invocation asked for a playback mode (lines 394-400)
PlaybackRequested == AfterForce(args) # "finally"

\* C11: every process invocation that loaded the mapping has persisted it
\* exactly once when it ends, on every path: normal completion, word not
\* found, failed primary download, and a failure raised during setup
\* (rebuild included) or during the word operation.
C11_PersistsOnceOnEveryPath ==
    pc = "exited" => hist.saves = 1

\* C12: the exit status is 0 only on success: an invocation that asked for a
\* playback and ends with status 0 has played the file of the requested slot;
\* when the word cannot be resolved or the file cannot be obtained or played
\* (a requested index without URL included) the status is nonzero.
C12_ExitZeroOnlyOnSuccess ==
    (pc = "exited" /\ PlaybackRequested /\ status = 0) => HasPlayed(hist.log)

\* _audit_downloaded has just been called on the word of args
Audited == hist.log # <<>> /\ hist.log[1][1] = "audit"

\* C13: after audit(word), downloaded has length numPronunciations and
\* downloaded[i] is true iff the file of slot i is on disk; the returned value
\* is the number of slots whose file is missing; audioURLs, speakerInfo,
\* numPronunciations and cycleIndex are unchanged.
C13_AuditReconcilesWithDisk ==
    Audited =>
        LET before == hist.log[1][3]
            rec == word_data[args.word]
            n == rec.num_pronounciations
            missing == {i \in 0..(n - 1) :
                           [word |-> args.word,
                            suffix |-> IF i = 0 THEN <<>> ELSE <<"_", i>>] \notin files}
        IN  /\ Len(rec.downloaded) = n
            /\ \A i \in 0..(n - 1) : rec.downloaded[i + 1] <=> i \notin missing
            /\ hist.log[1][2] = Cardinality(missing)
            /\ rec.audio_urls = before.audio_urls
            /\ rec.speaker_info = before.speaker_info
            /\ rec.num_pronounciations = before.num_pronounciations
            /\ rec.cycle_index = before.cycle_index
            /\ rec.disabled = before.disabled

\* C13 witness: audit has rewritten a downloaded list of another length and
\* with wrong flags, with files both present and missing
C13_Witness ==
    /\ Audited
    /\ Len(hist.log[1][3].downloaded) # hist.log[1][3].num_pronounciations
    /\ hist.log[1][2] >= 1
    /\ hist.log[1][2] < word_data[args.word].num_pronounciations
    /\ Len(hist.log[1][3].downloaded) >= 1
    /\ hist.log[1][3].downloaded[1] # word_data[args.word].downloaded[1]

\* the records of the running process and the persisted ones
AllRecords ==
    {word_data[w] : w \in DOMAIN word_data} \cup {Persisted[w] : w \in DOMAIN Persisted}

\* C14 as stated: for every record, between operations and after any
\* sequence of populate, override, rebuild and cycle calls,
\* 0 <= cycleIndex < numPronunciations.
C14_CursorBelowCount ==
    \A rec \in AllRecords :
        0 <= rec.cycle_index /\ rec.cycle_index < rec.num_pronounciations

\* C14 amended: for every record, between operations and after any sequence
\* of populate, override, rebuild and cycle calls, cycleIndex is 0 when the
\* record has no slot (numPronunciations = 0) and otherwise
\* 0 <= cycleIndex < numPronunciations.
C14_CursorInRangeOrZero ==
    \A rec \in AllRecords :
        /\ 0 <= rec.cycle_index
        /\ rec.num_pronounciations >= 1 => rec.cycle_index < rec.num_pronounciations
        /\ rec.num_pronounciations = 0 => rec.cycle_index = 0

\* C14 witness: a record persisted with an advanced cursor has been replaced
\* by a smaller one, and its cursor is in range
C14_Witness ==
    /\ pc = "finally"
    /\ HadRecord
    /\ Persisted[args.word].cycle_index >= 1
    /\ args.word \in DOMAIN word_data
    /\ word_data[args.word].num_pronounciations >= 1
    /\ word_data[args.word].num_pronounciations <= Persisted[args.word].cycle_index
    /\ word_data[args.word].cycle_index = 0

\* a task of the running batch has no result yet
TaskRunning == \E i \in DOMAIN futures : futures[i] = "running"

\* C15: during a bulk batch no worker task writes the record: while a task of
\* the batch is running the record is not modified and the batch does not
\* complete; the batch completes only when every submitted index has a
\* result, and only that step, taken by the control thread, merges the
\* results into downloaded.
C15_MergeOnlyAfterJoin ==
    [][pc = "pool" =>
          /\ DOMAIN futures' = DOMAIN futures
          /\ TaskRunning => (pc' = "pool" /\ word_data' = word_data)
          /\ futures' # futures => (pc' = "pool" /\ word_data' = word_data)
          /\ pc' # "pool" =>
                /\ \A i \in DOMAIN futures : futures[i] \in FetchOutcomes
                /\ futures' = futures
                /\ files' = files]_vars

\* C15 witness: a task of the batch has written its file while another is
\* still running, and the record does not show the written file yet
C15_Witness ==
    /\ pc = "pool"
    /\ \E i \in DOMAIN futures : \E j \in DOMAIN futures :
         /\ futures[i] = "ok"
         /\ futures[j] = "running"
         /\ IsFile(files, GetWordFilepath(args.word, i))
         /\ ~word_data[args.word].downloaded[i + 1]

\* pronounce has just returned from its bulk call (line 170)
DispatchCompleted ==
    /\ pc \in {"advance", "finally"}
    /\ hist.log # <<>>
    /\ hist.log[Len(hist.log)][1] \in {"joined", "nothing"}
    /\ hist.log[Len(hist.log)][2] # -1

\* C16: when a playback dispatch (synchronous fetch of slot k, play, bulk
\* ensure of the remaining indices) completes, with or without
\* force-download, downloaded[i] is true iff the file of slot i is on disk,
\* for every slot i of the word, slot k included.
C16_FlagsMatchDiskAfterDispatch ==
    DispatchCompleted =>
        LET rec == word_data[args.word] IN
        /\ Len(rec.downloaded) = rec.num_pronounciations
        /\ \A i \in 0..(rec.num_pronounciations - 1) :
               rec.downloaded[i + 1] <=> IsFile(files, GetWordFilepath(args.word, i))

\* override_metadata has re-populated, from a page of the Resolver, a word
\* that had a record
OverrodeExisting ==
    /\ pc # "exited"
    /\ hist.log # <<>>
    /\ hist.log[1] = <<"resolve", "page", TRUE>>

\* C17: populate(word, override=true) on a word that has a record with
\* cycleIndex = c, when the Resolver finds the word, produces a fresh record
\* whose cycleIndex is still c.
C17_OverrideKeepsCursor ==
    OverrodeExisting =>
        /\ args.word \in DOMAIN word_data
        /\ word_data[args.word].cycle_index = Persisted[args.word].cycle_index

\* the populate call of pronounce (line 166) has returned true and the
\* Resolver has not been asked in this invocation: a cache hit
CacheHit == pc = "primary" /\ hist.rcalls = 0

\* C18: populate(word, override=false) returns a cache hit without calling
\* the Resolver only when the existing record is complete (satisfies I1); for
\* an existing record that violates I1 it calls the Resolver and re-populates
\* the record before it is used.
C18_CacheHitOnlyForCompleteRecord ==
    CacheHit => I1(word_data[args.word])

\* the step is a populate call that asked the Resolver and did not succeed:
\* it ends in sys.exit(1) or in the except clause of line 401
PopulateFailedStep ==
    /\ pc \in {"cycle", "pronounce", "override"}
    /\ hist'.rcalls = hist.rcalls + 1
    /\ exitreq = "none"
    /\ exitreq' # "none"

\* C19: any Resolver failure during populate (a status other than success or
\* a failure of the page request itself) is word-not-found: the step in which
\* populate asked the Resolver and did not succeed leaves no record for the
\* word in the mapping, in particular no empty placeholder record.
C19_ResolverFailureLeavesNoRecord ==
    [][PopulateFailedStep => args.word \notin DOMAIN word_data']_vars

\* the invocation asked for a playback of a word that is resolved: when it
\* ends the mapping holds a record of the word with at least one slot
PlaybackOfResolvedWord ==
    /\ pc = "exited"
    /\ hist.saves = 1
    /\ PlaybackRequested
    /\ args.word \in DOMAIN Persisted
    /\ Persisted[args.word].num_pronounciations >= 1

\* C20: for each requested playback mode (explicit index, cycle, random) on a
\* resolvable word, dispatch resolves to a single target index i with
\* 0 <= i < numPronunciations and attempts to ensure and play exactly that
\* slot: no fetch or play for an index outside [0, numPronunciations), and
\* never no attempt at all.
C20_DispatchTargetsSlotInRange ==
    PlaybackOfResolvedWord =>
        LET n == Persisted[args.word].num_pronounciations
            attempts == {p \in 1..Len(hist.log) :
                            hist.log[p][1] \in {"found", "fetch", "play", "noplay"}}
        IN  /\ attempts # {}
            /\ \A p \in attempts : 0 <= hist.log[p][2] /\ hist.log[p][2] < n
            /\ \A p \in attempts : \A q \in attempts : hist.log[p][2] = hist.log[q][2]

\* C21: rebuild with override=false leaves unchanged every record that was
\* in the mapping before the call (numPronunciations, cycleIndex, audioURLs,
\* speakerInfo, disabled, downloaded), whatever files are on disk; only words
\* not already recorded get a record, built from the scan.
C21_RebuildKeepsExistingRecords ==
    (args.rebuild_metadata /\ pc \notin {"idle", "exited"} /\ hist.log = <<>>) =>
        /\ \A w \in DOMAIN Persisted :
              /\ w \in DOMAIN word_data
              /\ word_data[w] = Persisted[w]
        /\ \A w \in (DOMAIN word_data) \ (DOMAIN Persisted) :
              \E f \in files : f.word = w

\* C21 witness: rebuild has completed with a record of another word built
\* from the scan, beside a loaded record that the files on disk contradict
C21_Witness ==
    /\ RebuildDone
    /\ HadRecord
    /\ Persisted[args.word].cycle_index >= 1
    /\ \E f \in files :
         /\ f.word = args.word
         /\ f.suffix # <<>>
         /\ f.suffix[2] >= Persisted[args.word].num_pronounciations
    /\ (DOMAIN word_data) \ (DOMAIN Persisted) # {}

\* the files a step has added to the cache directory
Written == files' \ files

\* C22: within one bulk batch the submitted indices are indices of the
\* word's URLs, distinct indices map to distinct file paths (word for index
\* 0, word_i otherwise), and a finishing task writes at most the file of its
\* own index, which is the file of no other task of the batch.
C22_TasksWriteDistinctFiles ==
    [][pc = "pool" =>
          /\ \A i \in DOMAIN futures :
                /\ 0 <= i
                /\ i < Len(word_data[args.word].audio_urls)
                /\ GetWordFilepath(args.word, i).word = args.word
                /\ (i = 0) <=> (GetWordFilepath(args.word, i).suffix = <<>>)
          /\ \A i \in DOMAIN futures : \A j \in DOMAIN futures :
                i # j => GetWordFilepath(args.word, i) # GetWordFilepath(args.word, j)
          /\ \A i \in DOMAIN futures :
                futures'[i] # futures[i] =>
                    /\ Written \subseteq {GetWordFilepath(args.word, i)}
                    /\ \A j \in (DOMAIN futures) \ {i} :
                          GetWordFilepath(args.word, j) \notin Written]_vars

\* C22 witness: two tasks of a batch, one of them for index 0, are running
\* at the same time
C22_Witness ==
    /\ pc = "pool"
    /\ \E i \in DOMAIN futures :
         /\ i # 0
         /\ 0 \in DOMAIN futures
         /\ futures[i] = "running"
         /\ futures[0] = "running"

\* a cycle invocation in which the synchronous fetch of the selected slot
\* failed or the word could not be resolved is about to persist the mapping
CycleFailed ==
    /\ pc = "finally"
    /\ args.cycle # NoCycle
    /\ PrimaryFailed \/ exitreq = "sysexit"

\* C23: if the synchronous fetch of the slot selected by cycle fails (or the
\* word cannot be resolved), the invocation ends without advancing the
\* cursor: the cycleIndex persisted at its end, if the record still exists,
\* is the one that was persisted before, and the invocation has not gone
\* through line 163.
C23_FailedCycleKeepsCursor ==
    [][CycleFailed =>
          /\ ~CycleCompleted(hist.log)
          /\ \A w \in (DOMAIN word_data_file.data) \cap (DOMAIN word_data_file'.data) :
                word_data_file'.data[w].cycle_index = word_data_file.data[w].cycle_index
          /\ word_data_file'.exists]_vars

\* C23 witness: a cycle invocation whose fetch failed has ended with a
\* nonzero status and the advanced cursor of an earlier run still persisted
C23_Witness ==
    /\ pc = "exited"
    /\ args.cycle # NoCycle
    /\ PrimaryFailed
    /\ status = 1
    /\ hist.saves = 1
    /\ args.word \in DOMAIN Persisted
    /\ Persisted[args.word].cycle_index >= 1

\* C24: rebuild always terminates normally and processes every word found on
\* disk: no failure escapes it (the process never ends inside setup, without
\* its teardown), whatever the Resolver answers, and once the invocation is
\* past setup no word of the scan is left to visit.
C24_RebuildTerminatesNormally ==
    args.rebuild_metadata =>
        /\ pc = "exited" => (hist.saves = 1 /\ status = 0)
        /\ pc \notin {"idle", "rebuild", "exited"} => todo = {}

\* every audio request of the dispatch was answered with success
AllFetchesSucceeded == \A i \in DOMAIN futures : futures[i] = "ok"

\* C25: from any reachable mapping (records left by rebuild included), a
\* playback dispatch without force-download in which every remote fetch
\* succeeds ends with the file of every slot in [0, numPronunciations) on
\* disk: the bulk step never returns early while a slot's file is missing.
C25_DispatchFetchesEverySlot ==
    (DispatchCompleted /\ ~force /\ AllFetchesSucceeded) =>
        \A i \in 0..(word_data[args.word].num_pronounciations - 1) :
            IsFile(files, GetWordFilepath(args.word, i))

====
